---- MODULE Spec2Model ----
(***************************************************************************)
(* Model of src/src/index.ts: the AgentState Durable Object (one instance  *)
(* per session, holding the storage keys "messages" and "analytics") and   *)
(* the RPC calls made on it.  Every `await this.ctx.storage...` is a       *)
(* suspension point of the call, so a call is a sequence of steps named    *)
(* after the source line of the storage operation it is waiting for.       *)
(***************************************************************************)
EXTENDS Integers, Sequences, FiniteSets, TLC

\* ---------------------------------------------------------------- bounds
\* Total number of messages held (or about to be held) by all ledgers.
MaxMsgs == 3
\* Last instant the clock may reach.
MaxNow == 3
\* The same two bounds where the clock counts milliseconds from 1000 and one
\* session receives user and assistant messages only.
MaxPairMsgs == 4
MaxPairNow == 1800
\* Total number of messages where two sessions are in use.
MaxSessionMsgs == 2
\* Messages appended in a run with storage failures.
MaxFailureMsgs == 3
\* Messages stored or still to be appended by the requests of a run of the
\* fetch handler.
MaxChatMsgs == 5

\* ------------------------------------------------------------- constants
Sessions == {"s1", "s2"}
Roles == {"user", "assistant", "system"}
\* The RPC calls that can be in flight at once.
Calls == {1, 2}

VARIABLES
  now,        \* Date.now()
  messages,   \* per object: storage key "messages": {} when absent, else {list}
  analytics,  \* per object: storage key "analytics": {} when absent, else {record}
  calls,      \* the RPC calls in flight: op, session, argument, position, locals
  inbox,      \* per object: calls submitted and not yet delivered, in order
  expected    \* history: per session, the roles appended since the last clear, in submission order

vars == <<now, messages, analytics, calls, inbox, expected>>

\* ------------------------------------------------------------ arithmetic
RECURSIVE GCD(_, _)
GCD(a, b) == IF b = 0 THEN a ELSE GCD(b, a % b)

Abs(x) == IF x < 0 THEN -x ELSE x

\* A JavaScript number that is a ratio of integers, kept in lowest terms
\* with a positive denominator.
Rat(n, d) ==
  LET g == GCD(Abs(n), Abs(d))
      s == IF d < 0 THEN -1 ELSE 1
  IN  [num |-> (s * n) \div g, den |-> (s * d) \div g]

RatOfInt(n) == [num |-> n, den |-> 1]

\* The mean with the old average weighted by n instead of n - 1.
RunningMeanOffByOne(average, k, delta, n) ==
  Rat(average.num * n + delta * average.den, average.den * n)

\* (average * k + delta) / n, as written at lines 75-77.
RunningMean(average, k, delta, n) ==
  Rat(average.num * k + delta * average.den, average.den * n)

\* --------------------------------------------------------------- storage
\* An optional value is the empty set (undefined) or a singleton.
Value(opt) == CHOOSE v \in opt : TRUE

\* JavaScript truthiness of an optional number and of a number.
Truthy(n) == n # 0
TruthyOpt(opt) == opt # {} /\ Truthy(Value(opt))

\* Every session identifier resolving to one object.
idFromNameCollides(sessionId) == "s1"

\* The object a session identifier resolves to.
idFromName(sessionId) == sessionId

\* The sessionId of a request body is any string: the identifiers above or
\* the empty one.
SessionIds == Sessions \cup {""}

Objects == {idFromName(s) : s \in SessionIds}

ZeroAnalytics ==
  [totalMessages |-> 0, userMessages |-> 0, assistantMessages |-> 0,
   averageResponseTime |-> RatOfInt(0),
   firstMessageTime |-> {}, lastMessageTime |-> {}]

\* The read without its fallback: an absent list is not the empty list.
getMessagesNoFallback(o) ==
  IF messages[o] = {}
  THEN <<[role |-> "undefined", content |-> "undefined", timestamp |-> 0]>>
  ELSE Value(messages[o])

\* What storage.get("messages") || [] evaluates to.
getMessages(o) == IF messages[o] = {} THEN <<>> ELSE Value(messages[o])

\* What storage.get("analytics") || {zeroes} evaluates to.
getAnalytics(o) == IF analytics[o] = {} THEN ZeroAnalytics ELSE Value(analytics[o])


\* ----------------------------------------------------------------- calls
\* A free call slot.  The locals of a call are messages (line 30 and line
\* 70), message.timestamp (line 31) and analytics (line 57); ret is the
\* value the call resolved to: {} until it has one.
\* A call made by a request to /api/chat carries the request's position in
\* the handler (chat: the line of the await it is at) and the handler's
\* const messages of line 122 (history).
IdleCall ==
  [op |-> "none", sess |-> "none", role |-> "none", pc |-> "idle",
   timestamp |-> 0, msgs |-> <<>>, ana |-> ZeroAnalytics, ret |-> {},
   chat |-> "none", history |-> <<>>]

obj(c) == idFromName(calls[c].sess)

\* A call is running from its delivery to its return value.  A request that
\* awaits env.AI.run (line 138 or 171) has no call on the object.
Running(c) == calls[c].pc \notin {"idle", "queued", "done", "L138", "L171"}

\* An object without input gate: events are delivered while a call awaits.
InputGateAlwaysOpen(o) == TRUE

\* The input gate of a Durable Object: while a call of the object awaits a
\* storage operation, no other event is delivered to the object.  Every
\* await of AgentState is a storage operation.
InputGateOpen(o) == \A c \in Calls : obj(c) = o => ~Running(c)

\* A finished call returns to its caller before anything else happens.
NoneDone == \A c \in Calls : calls[c].pc # "done"

\* Number of messages stored by the objects os.
RECURSIVE SumLen(_)
SumLen(os) ==
  IF os = {} THEN 0
  ELSE LET o == CHOOSE x \in os : TRUE
       IN  Len(getMessages(o)) + SumLen(os \ {o})

\* Appends submitted whose message is not stored yet.
PendingAdds ==
  Cardinality({c \in Calls : calls[c].op = "addMessage"
                             /\ calls[c].pc \in {"queued", "L30", "L33"}})

Submit(c, s, op, r) ==
  /\ NoneDone
  /\ calls[c].pc = "idle"
  /\ \A d \in Calls : d < c => calls[d].pc # "idle"
  /\ calls' = [calls EXCEPT ![c] = [IdleCall EXCEPT !.op = op, !.sess = s,
                                                    !.role = r, !.pc = "queued"]]
  /\ inbox' = [inbox EXCEPT ![idFromName(s)] = Append(@, c)]

\* stub.addMessage({ role, content }) is sent to the object of session s.
SubmitAddMessage(c, s, r, max) ==
  /\ SumLen(Objects) + PendingAdds < max
  /\ Submit(c, s, "addMessage", r)
  /\ expected' = [expected EXCEPT ![s] = Append(@, r)]
  /\ UNCHANGED <<now, messages, analytics>>

\* The timestamps a caller may put in the message it sends.
CallerTimestamps == {MaxNow + 1}

\* stub.addMessage({ role, content, timestamp }) is sent to the object of
\* session s: the caller has filled in the optional timestamp of the message.
SubmitStampedMessage(c, s, r, ts, max) ==
  /\ SumLen(Objects) + PendingAdds < max
  /\ NoneDone
  /\ calls[c].pc = "idle"
  /\ \A d \in Calls : d < c => calls[d].pc # "idle"
  /\ calls' = [calls EXCEPT ![c] = [IdleCall EXCEPT !.op = "addMessage", !.sess = s,
                                                    !.role = r, !.pc = "queued",
                                                    !.timestamp = ts]]
  /\ inbox' = [inbox EXCEPT ![idFromName(s)] = Append(@, c)]
  /\ expected' = [expected EXCEPT ![s] = Append(@, r)]
  /\ UNCHANGED <<now, messages, analytics>>

\* stub.clearMessages() is sent to the object of session s.
SubmitClearMessages(c, s) ==
  /\ Submit(c, s, "clearMessages", "none")
  /\ expected' = [expected EXCEPT ![s] = <<>>]
  /\ UNCHANGED <<now, messages, analytics>>

\* stub.getMessages() is sent to the object of session s.
SubmitGetMessages(c, s) ==
  /\ Submit(c, s, "getMessages", "none")
  /\ UNCHANGED <<now, messages, analytics, expected>>

\* stub.getAnalytics() is sent to the object of session s.
SubmitGetAnalytics(c, s) ==
  /\ Submit(c, s, "getAnalytics", "none")
  /\ UNCHANGED <<now, messages, analytics, expected>>

\* The first storage operation each method awaits.
FirstAwait(op) ==
  CASE op = "addMessage"    -> "L30"
    [] op = "clearMessages" -> "L38"
    [] op = "getMessages"   -> "L26"
    [] op = "getAnalytics"  -> "L48"

\* The object takes the next call of its inbox and runs it to its first await.
Deliver(c) ==
  /\ NoneDone
  /\ calls[c].pc = "queued"
  /\ inbox[obj(c)] # <<>>
  /\ Head(inbox[obj(c)]) = c
  /\ InputGateOpen(obj(c))
  /\ inbox' = [inbox EXCEPT ![obj(c)] = Tail(@)]
  /\ calls' = [calls EXCEPT ![c].pc = FirstAwait(calls[c].op)]
  /\ UNCHANGED <<now, messages, analytics, expected>>

\* The caller receives the value of a finished call; the slot is free again.
Return(c) ==
  /\ calls[c].pc = "done"
  /\ calls[c].chat = "none"
  /\ calls' = [calls EXCEPT ![c] = IdleCall]
  /\ UNCHANGED <<now, messages, analytics, inbox, expected>>

\* Time passes.
Tick(d, max) ==
  /\ NoneDone
  /\ now + d <= max
  /\ now' = now + d
  /\ UNCHANGED <<messages, analytics, calls, inbox, expected>>


\* ---------------------------------------------------------- AgentState
\* The call has run to its end and resolves to the optional value ret.
Finished(c, ret) ==
  [IdleCall EXCEPT !.op = calls[c].op, !.sess = calls[c].sess,
                   !.role = calls[c].role, !.pc = "done", !.ret = ret,
                   !.chat = calls[c].chat, !.history = calls[c].history]

\* The stored message without line 31: a timestamp the caller supplied is
\* kept.
NewMessageKeepsTimestamp(c) ==
  [role |-> calls[c].role, content |-> calls[c].sess,
   timestamp |-> IF calls[c].timestamp # 0 THEN calls[c].timestamp ELSE now]

\* The message a caller of session s sends: its content is opaque text, here
\* the name of the session it was written through.
NewMessage(c) ==
  [role |-> calls[c].role, content |-> calls[c].sess, timestamp |-> now]

\* getMessages, line 26: the read completes and the call returns the list.
getMessages_L26(c) ==
  /\ NoneDone
  /\ calls[c].pc = "L26"
  /\ calls' = [calls EXCEPT ![c] = Finished(c, {getMessages(obj(c))})]
  /\ UNCHANGED <<now, messages, analytics, inbox, expected>>

\* getAnalytics, line 48: the read completes and the call returns the record.
getAnalytics_L48(c) ==
  /\ NoneDone
  /\ calls[c].pc = "L48"
  /\ calls' = [calls EXCEPT ![c] = Finished(c, {getAnalytics(obj(c))})]
  /\ UNCHANGED <<now, messages, analytics, inbox, expected>>

\* addMessage with messages.unshift(message) in place of push.
addMessage_L30_Unshift(c) ==
  /\ NoneDone
  /\ calls[c].pc = "L30"
  /\ calls' = [calls EXCEPT ![c].timestamp = now,
                            ![c].msgs = <<NewMessage(c)>> \o getMessages(obj(c)),
                            ![c].pc = "L33"]
  /\ UNCHANGED <<now, messages, analytics, inbox, expected>>

\* addMessage, lines 30-33: the read of line 30 completes, the message gets
\* its timestamp and is pushed on the local list, and the put is issued.
addMessage_L30(c) ==
  /\ NoneDone
  /\ calls[c].pc = "L30"
  /\ calls' = [calls EXCEPT ![c].timestamp = now,
                            ![c].msgs = Append(getMessages(obj(c)), NewMessage(c)),
                            ![c].pc = "L33"]
  /\ UNCHANGED <<now, messages, analytics, inbox, expected>>

\* addMessage, lines 33-34 and 57: the put of the list completes and
\* updateAnalytics issues its read of the analytics.
addMessage_L33(c) ==
  /\ NoneDone
  /\ calls[c].pc = "L33"
  /\ messages' = [messages EXCEPT ![obj(c)] = {calls[c].msgs}]
  /\ calls' = [calls EXCEPT ![c].msgs = <<>>, ![c].pc = "L57"]
  /\ UNCHANGED <<now, analytics, inbox, expected>>

\* The user branch without the test of line 63.
UserBranchOverwritesFirst(a, ts) ==
  [a EXCEPT !.userMessages = @ + 1,
            !.lastMessageTime = {ts},
            !.firstMessageTime = {ts}]

\* The user branch with lastMessageTime set only when it is unset.
UserBranchKeepsLast(a, ts) ==
  [a EXCEPT !.userMessages = @ + 1,
            !.lastMessageTime = IF ~TruthyOpt(@) THEN {ts} ELSE @,
            !.firstMessageTime = IF ~TruthyOpt(@) THEN {ts} ELSE @]

\* Lines 60-65: the user branch.
UserBranch(a, ts) ==
  [a EXCEPT !.userMessages = @ + 1,
            !.lastMessageTime = {ts},
            !.firstMessageTime = IF ~TruthyOpt(@) THEN {ts} ELSE @]

\* updateAnalytics counting a message in totalMessages only when its role is
\* user or assistant.
updateAnalytics_L57_SkipsSystem(c) ==
  /\ NoneDone
  /\ calls[c].pc = "L57"
  /\ LET a == [getAnalytics(obj(c)) EXCEPT !.totalMessages = @ + 1]
     IN  calls' = [calls EXCEPT
           ![c].ana = CASE calls[c].role = "user" -> UserBranch(a, calls[c].timestamp)
                        [] calls[c].role = "assistant" ->
                             [a EXCEPT !.assistantMessages = @ + 1]
                        [] OTHER -> getAnalytics(obj(c)),
           ![c].pc = IF calls[c].role = "assistant" THEN "L70" ELSE "L82"]
  /\ UNCHANGED <<now, messages, analytics, inbox, expected>>

\* updateAnalytics, lines 57-68: the analytics are read, totalMessages is
\* incremented and the counter of the role; an assistant message then reads
\* the list again (line 70), any other goes to the put of line 82.
updateAnalytics_L57(c) ==
  /\ NoneDone
  /\ calls[c].pc = "L57"
  /\ LET a == [getAnalytics(obj(c)) EXCEPT !.totalMessages = @ + 1]
     IN  calls' = [calls EXCEPT
           ![c].ana = CASE calls[c].role = "user" -> UserBranch(a, calls[c].timestamp)
                        [] calls[c].role = "assistant" ->
                             [a EXCEPT !.assistantMessages = @ + 1]
                        [] OTHER -> a,
           ![c].pc = IF calls[c].role = "assistant" THEN "L70" ELSE "L82"]
  /\ UNCHANGED <<now, messages, analytics, inbox, expected>>

\* The find of line 72 without the reverse: the first user message.
RECURSIVE LastUserIndexNoReverse(_)
LastUserIndexNoReverse(seq) ==
  IF seq = <<>> THEN 0
  ELSE IF Head(seq).role = "user" THEN 1
  ELSE LET i == LastUserIndexNoReverse(Tail(seq)) IN IF i = 0 THEN 0 ELSE i + 1

\* [...messages].reverse().find(m => m.role === "user"), line 72: the index
\* of the last user message of the list, 0 when there is none.
RECURSIVE LastUserIndex(_)
LastUserIndex(seq) ==
  IF seq = <<>> THEN 0
  ELSE IF seq[Len(seq)].role = "user" THEN Len(seq)
  ELSE LastUserIndex(SubSeq(seq, 1, Len(seq) - 1))

\* The response time measured from 0 when the list has no user message.
ResponseTimeBranchNoUserTest(a, seq, ts) ==
  LET i == LastUserIndex(seq)
  IN  IF Len(seq) >= 2 /\ Truthy(ts)
      THEN [a EXCEPT !.averageResponseTime =
              RunningMean(@, a.assistantMessages - 1,
                          ts - (IF i # 0 THEN seq[i].timestamp ELSE 0),
                          a.assistantMessages)]
      ELSE a

\* The response time with its subtraction the other way round.
ResponseTimeBranchReversed(a, seq, ts) ==
  LET i == LastUserIndex(seq)
  IN  IF Len(seq) >= 2 /\ i # 0 /\ Truthy(seq[i].timestamp) /\ Truthy(ts)
      THEN [a EXCEPT !.averageResponseTime =
              RunningMean(@, a.assistantMessages - 1, seq[i].timestamp - ts,
                          a.assistantMessages)]
      ELSE a

\* Lines 71-79: the response time of the message stamped ts, folded into the
\* running mean when the list has two messages or more, one of them a user
\* message, and both timestamps are truthy.
ResponseTimeBranch(a, seq, ts) ==
  LET i == LastUserIndex(seq)
  IN  IF Len(seq) >= 2 /\ i # 0 /\ Truthy(seq[i].timestamp) /\ Truthy(ts)
      THEN [a EXCEPT !.averageResponseTime =
              RunningMean(@, a.assistantMessages - 1, ts - seq[i].timestamp,
                          a.assistantMessages)]
      ELSE a

\* updateAnalytics, lines 70-79: the second read of the list completes.
updateAnalytics_L70(c) ==
  /\ NoneDone
  /\ calls[c].pc = "L70"
  /\ calls' = [calls EXCEPT
        ![c].ana = ResponseTimeBranch(@, getMessages(obj(c)), calls[c].timestamp),
        ![c].pc = "L82"]
  /\ UNCHANGED <<now, messages, analytics, inbox, expected>>

\* updateAnalytics, line 82: the put of the analytics completes; addMessage
\* returns.
updateAnalytics_L82(c) ==
  /\ NoneDone
  /\ calls[c].pc = "L82"
  /\ analytics' = [analytics EXCEPT ![obj(c)] = {calls[c].ana}]
  /\ calls' = [calls EXCEPT ![c] = Finished(c, {})]
  /\ UNCHANGED <<now, messages, inbox, expected>>

\* The record clearMessages writes, lines 39-44: the two optional fields are
\* not part of it.
ClearedAnalytics ==
  [totalMessages |-> 0, userMessages |-> 0, assistantMessages |-> 0,
   averageResponseTime |-> RatOfInt(0),
   firstMessageTime |-> {}, lastMessageTime |-> {}]

\* clearMessages, line 38: the put of the empty list completes and the put of
\* the analytics is issued.
clearMessages_L38(c) ==
  /\ NoneDone
  /\ calls[c].pc = "L38"
  /\ messages' = [messages EXCEPT ![obj(c)] = {<<>>}]
  /\ calls' = [calls EXCEPT ![c].pc = "L39"]
  /\ UNCHANGED <<now, analytics, inbox, expected>>

\* clearMessages without its second put.
clearMessages_L39_NoReset(c) ==
  /\ NoneDone
  /\ calls[c].pc = "L39"
  /\ calls' = [calls EXCEPT ![c] = Finished(c, {})]
  /\ UNCHANGED <<now, messages, analytics, inbox, expected>>

\* clearMessages zeroing the counters of the stored analytics and keeping
\* its other fields.
clearMessages_L39_KeepsTimes(c) ==
  /\ NoneDone
  /\ calls[c].pc = "L39"
  /\ analytics' = [analytics EXCEPT ![obj(c)] =
        {[ClearedAnalytics EXCEPT
            !.firstMessageTime = getAnalytics(obj(c)).firstMessageTime,
            !.lastMessageTime = getAnalytics(obj(c)).lastMessageTime]}]
  /\ calls' = [calls EXCEPT ![c] = Finished(c, {})]
  /\ UNCHANGED <<now, messages, inbox, expected>>

\* clearMessages, line 39: the put of the zeroed analytics completes.
clearMessages_L39(c) ==
  /\ NoneDone
  /\ calls[c].pc = "L39"
  /\ analytics' = [analytics EXCEPT ![obj(c)] = {ClearedAnalytics}]
  /\ calls' = [calls EXCEPT ![c] = Finished(c, {})]
  /\ UNCHANGED <<now, messages, inbox, expected>>

\* ------------------------------------------------------------------ fetch
\* Messages the chat requests in flight have still to send for appending:
\* two before the user message is sent, one from then until the assistant
\* message is sent.
ChatToCome(c) ==
  CASE calls[c].chat = "L122" -> 2
    [] calls[c].chat \in {"L125", "L138", "L171"} -> 1
    [] OTHER -> 0

\* POST /api/chat, lines 109-122: the body is parsed, the stub of sessionId
\* s is taken, whatever s is, and stub.getMessages() is sent.
fetch_chat_L111(c, s, max) ==
  /\ NoneDone
  /\ SumLen(Objects) + PendingAdds + ChatToCome(1) + ChatToCome(2) + 2 <= max
  /\ calls[c].pc = "idle"
  /\ \A d \in Calls : d < c => calls[d].pc # "idle"
  /\ calls' = [calls EXCEPT ![c] = [IdleCall EXCEPT !.op = "getMessages", !.sess = s,
                                                    !.pc = "queued", !.chat = "L122"]]
  /\ inbox' = [inbox EXCEPT ![idFromName(s)] = Append(@, c)]
  /\ UNCHANGED <<now, messages, analytics, expected>>

\* Lines 122-125: the history has arrived and the user message is sent with
\* stub.addMessage.
fetch_chat_L122(c) ==
  /\ calls[c].pc = "done"
  /\ calls[c].chat = "L122"
  /\ calls' = [calls EXCEPT ![c] = [IdleCall EXCEPT !.op = "addMessage",
                                                    !.sess = calls[c].sess,
                                                    !.role = "user", !.pc = "queued",
                                                    !.chat = "L125",
                                                    !.history = Value(calls[c].ret)]]
  /\ inbox' = [inbox EXCEPT ![obj(c)] = Append(@, c)]
  /\ expected' = [expected EXCEPT ![calls[c].sess] = Append(@, "user")]
  /\ UNCHANGED <<now, messages, analytics>>

\* Lines 125-171: the user message is stored; env.AI.run is called, with the
\* vision model (line 138) if the request has an image and with the text
\* model (line 171) if not.
fetch_chat_L125(c, image) ==
  /\ calls[c].pc = "done"
  /\ calls[c].chat = "L125"
  /\ calls' = [calls EXCEPT ![c] = [IdleCall EXCEPT !.op = "run",
                                                    !.sess = calls[c].sess,
                                                    !.pc = IF image THEN "L138" ELSE "L171",
                                                    !.chat = IF image THEN "L138" ELSE "L171",
                                                    !.history = calls[c].history]]
  /\ UNCHANGED <<now, messages, analytics, inbox, expected>>

\* Lines 161-168: the messages handed to the text model are the system
\* prompt, the history read at line 122 and the user message of the request.
\* The prompt and the user message are built without a timestamp (0 here).
aiMessages(c) ==
  <<[role |-> "system", content |-> "prompt", timestamp |-> 0]>>
    \o calls[c].history
    \o <<[role |-> "user", content |-> calls[c].sess, timestamp |-> 0]>>

\* The catch of lines 189-197 storing an apology as the assistant message.
fetch_chat_catch_Appends(c) ==
  /\ NoneDone
  /\ calls[c].pc \in {"L138", "L171"}
  /\ calls' = [calls EXCEPT ![c] = [IdleCall EXCEPT !.op = "addMessage",
                                                    !.sess = calls[c].sess,
                                                    !.role = "assistant", !.pc = "queued",
                                                    !.chat = "L190"]]
  /\ inbox' = [inbox EXCEPT ![obj(c)] = Append(@, c)]
  /\ expected' = [expected EXCEPT ![calls[c].sess] = Append(@, "assistant")]
  /\ UNCHANGED <<now, messages, analytics>>

\* env.AI.run throws: control passes to the catch of lines 189-197, which
\* builds the 500 response and calls nothing.
fetch_chat_catch(c) ==
  /\ NoneDone
  /\ calls[c].pc \in {"L138", "L171"}
  /\ calls' = [calls EXCEPT ![c] = [IdleCall EXCEPT !.op = "run",
                                                    !.sess = calls[c].sess,
                                                    !.pc = "done", !.chat = "L190",
                                                    !.ret = {"error"}]]
  /\ UNCHANGED <<now, messages, analytics, inbox, expected>>

\* Lines 144-147 and 175-178: env.AI.run has returned and the assistant
\* message is sent with stub.addMessage.
fetch_chat_run(c) ==
  /\ NoneDone
  /\ calls[c].pc \in {"L138", "L171"}
  /\ calls' = [calls EXCEPT ![c] = [IdleCall EXCEPT !.op = "addMessage",
                                                    !.sess = calls[c].sess,
                                                    !.role = "assistant", !.pc = "queued",
                                                    !.chat = IF calls[c].pc = "L138"
                                                             THEN "L147" ELSE "L178"]]
  /\ inbox' = [inbox EXCEPT ![obj(c)] = Append(@, c)]
  /\ expected' = [expected EXCEPT ![calls[c].sess] = Append(@, "assistant")]
  /\ UNCHANGED <<now, messages, analytics>>

\* Lines 152, 183 and 190: the handler returns its response.
fetch_chat_response(c) ==
  /\ calls[c].pc = "done"
  /\ calls[c].chat \in {"L147", "L178", "L190"}
  /\ calls' = [calls EXCEPT ![c] = IdleCall]
  /\ UNCHANGED <<now, messages, analytics, inbox, expected>>

\* POST /api/clear, lines 201-206.
fetch_clear(c, s) == SubmitClearMessages(c, s)

\* POST /api/analytics, lines 226-231.
fetch_analytics(c, s) == SubmitGetAnalytics(c, s)

\* POST /api/export, lines 251-256.
fetch_export(c, s) == SubmitGetMessages(c, s)

\* The storage operation a call awaits rejects: a get returns nothing, a put
\* stores nothing, and the exception leaves the method (no method of
\* AgentState has a try or a catch), so the call ends with the failure and
\* what it stored before stays stored.
StorageFails(c) ==
  /\ NoneDone
  /\ Running(c)
  /\ calls' = [calls EXCEPT ![c] = Finished(c, {"StorageFailure"})]
  /\ UNCHANGED <<now, messages, analytics, inbox, expected>>


\* ------------------------------------------------------- specification
InitAt(t) ==
  /\ now = t
  /\ messages = [o \in Objects |-> {}]
  /\ analytics = [o \in Objects |-> {}]
  /\ calls = [c \in Calls |-> IdleCall]
  /\ inbox = [o \in Objects |-> <<>>]
  /\ expected = [s \in SessionIds |-> <<>>]

\* The steps of the calls in flight, whatever submitted them.
Step ==
  \/ \E c \in Calls : Return(c)
  \/ \E c \in Calls : Deliver(c)
  \/ \E c \in Calls : getMessages_L26(c)
  \/ \E c \in Calls : getAnalytics_L48(c)
  \/ \E c \in Calls : addMessage_L30(c)
  \/ \E c \in Calls : addMessage_L33(c)
  \/ \E c \in Calls : updateAnalytics_L57(c)
  \/ \E c \in Calls : updateAnalytics_L70(c)
  \/ \E c \in Calls : updateAnalytics_L82(c)
  \/ \E c \in Calls : clearMessages_L38(c)
  \/ \E c \in Calls : clearMessages_L39(c)

\* One session, every method and every role, any number of calls in flight.
Next ==
  \/ Tick(1, MaxNow)
  \/ \E c \in Calls, r \in Roles : SubmitAddMessage(c, "s1", r, MaxMsgs)
  \/ \E c \in Calls, r \in Roles, ts \in CallerTimestamps :
       SubmitStampedMessage(c, "s1", r, ts, MaxMsgs)
  \/ \E c \in Calls : SubmitClearMessages(c, "s1")
  \/ \E c \in Calls : SubmitGetMessages(c, "s1")
  \/ \E c \in Calls : SubmitGetAnalytics(c, "s1")
  \/ Step

Init == InitAt(1)

Spec == Init /\ [][Next]_vars

\* One session that receives user and assistant messages and clears, with a
\* clock that starts at 1000 and advances by 300 or by 500.
InitPairs == InitAt(1000)

NextPairs ==
  \/ \E d \in {300, 500} : Tick(d, MaxPairNow)
  \/ \E c \in Calls, r \in {"user", "assistant"} :
        SubmitAddMessage(c, "s1", r, MaxPairMsgs)
  \/ \E c \in Calls : SubmitClearMessages(c, "s1")
  \/ \E c \in Calls : Deliver(c)
  \/ \E c \in Calls : addMessage_L30(c)
  \/ \E c \in Calls : addMessage_L33(c)
  \/ \E c \in Calls : updateAnalytics_L57(c)
  \/ \E c \in Calls : updateAnalytics_L70(c)
  \/ \E c \in Calls : updateAnalytics_L82(c)
  \/ \E c \in Calls : clearMessages_L38(c)
  \/ \E c \in Calls : clearMessages_L39(c)
  \/ \E c \in Calls : Return(c)

SpecPairs == InitPairs /\ [][NextPairs]_vars

\* Two sessions, every method and every role, at one instant.
NextSessions ==
  \/ \E c \in Calls, s \in Sessions, r \in Roles :
        SubmitAddMessage(c, s, r, MaxSessionMsgs)
  \/ \E c \in Calls, s \in Sessions : SubmitClearMessages(c, s)
  \/ \E c \in Calls, s \in Sessions : SubmitGetMessages(c, s)
  \/ \E c \in Calls, s \in Sessions : SubmitGetAnalytics(c, s)
  \/ Step

SpecSessions == Init /\ [][NextSessions]_vars

\* stub.addMessage is sent where appends may fail: a failed append stores
\* nothing and a failed clear may leave the counters, so the appends sent
\* since the last clear and the stored count are bounded as well.
SubmitAddMessageBounded(c, s, r, max) ==
  /\ Len(expected[s]) < max
  /\ getAnalytics(idFromName(s)).totalMessages < max
  /\ SubmitAddMessage(c, s, r, max)

\* One session whose storage operations may fail, written to by appends and
\* clears.
NextFailures ==
  \/ \E c \in Calls, r \in Roles :
       SubmitAddMessageBounded(c, "s1", r, MaxFailureMsgs)
  \/ \E c \in Calls : SubmitClearMessages(c, "s1")
  \/ \E c \in Calls :
       \/ StorageFails(c)
       \/ Deliver(c)
       \/ Return(c)
       \/ addMessage_L30(c)
       \/ addMessage_L33(c)
       \/ updateAnalytics_L57(c)
       \/ updateAnalytics_L70(c)
       \/ updateAnalytics_L82(c)
       \/ clearMessages_L38(c)
       \/ clearMessages_L39(c)

SpecFailures == Init /\ [][NextFailures]_vars

\* The requests of the fetch handler that carry sessionId s, and the calls
\* they make.
NextRequests(s) ==
  \/ \E c \in Calls : fetch_chat_L111(c, s, MaxChatMsgs)
  \/ \E c \in Calls : fetch_clear(c, s)
  \/ \E c \in Calls : fetch_analytics(c, s)
  \/ \E c \in Calls : fetch_export(c, s)
  \/ \E c \in Calls :
       \/ fetch_chat_L122(c)
       \/ \E image \in BOOLEAN : fetch_chat_L125(c, image)
       \/ fetch_chat_run(c)
       \/ fetch_chat_catch(c)
       \/ fetch_chat_response(c)
  \/ Step

\* One session used through the endpoints.
SpecChat == Init /\ [][NextRequests("s1")]_vars

\* The endpoints called with an empty sessionId.
SpecEmptyId == Init /\ [][NextRequests("")]_vars


\* ------------------------------------------------------------ properties
\* No call of the object is running and none waits in its inbox.
Settled(o) ==
  /\ inbox[o] = <<>>
  /\ \A c \in Calls : obj(c) = o => ~Running(c)

\* No call of the object is running.
NoneRunning(o) == \A c \in Calls : obj(c) = o => ~Running(c)

RolesOf(seq) == [i \in 1..Len(seq) |-> seq[i].role]

CountOf(roles, r) == Cardinality({i \in 1..Len(roles) : roles[i] = r})

\* C1: appends submitted to one session while another append of that session
\* is in flight are all in the ledger, in submission order, once the object
\* has settled, and the analytics count each of them: totalMessages is the
\* number of appends submitted since the last clear, and the counters of the
\* roles are the numbers of user and assistant appends among them.
C1_NoLostUpdate ==
  \A s \in Sessions :
    Settled(idFromName(s)) =>
      /\ RolesOf(getMessages(idFromName(s))) = expected[s]
      /\ getAnalytics(idFromName(s)).totalMessages = Len(expected[s])
      /\ getAnalytics(idFromName(s)).userMessages = CountOf(expected[s], "user")
      /\ getAnalytics(idFromName(s)).assistantMessages
           = CountOf(expected[s], "assistant")

\* An append B waits at the closed gate while the append A, submitted before
\* it, is between its write of the ledger and its write of the analytics.
C1_Witness ==
  \E a, b \in Calls :
    /\ a # b
    /\ calls[a].op = "addMessage" /\ calls[b].op = "addMessage"
    /\ calls[a].sess = calls[b].sess
    /\ calls[a].pc = "L82" /\ calls[b].pc = "queued"
    /\ Len(getMessages(obj(a))) = 2

\* C2: the stored analytics always have
\* totalMessages = userMessages + assistantMessages.
C2_TotalIsUserPlusAssistant ==
  \A o \in Objects :
    getAnalytics(o).totalMessages
      = getAnalytics(o).userMessages + getAnalytics(o).assistantMessages

\* The response times of a ledger: for each assistant message that has a user
\* message before it, its timestamp minus that of the last such user message.
RECURSIVE Deltas(_)
Deltas(seq) ==
  IF seq = <<>> THEN <<>>
  ELSE LET n == Len(seq)
           before == SubSeq(seq, 1, n - 1)
           i == LastUserIndex(before)
       IN  IF seq[n].role = "assistant" /\ i # 0
           THEN Append(Deltas(before), seq[n].timestamp - before[i].timestamp)
           ELSE Deltas(before)

RECURSIVE Sum(_)
Sum(seq) == IF seq = <<>> THEN 0 ELSE Head(seq) + Sum(Tail(seq))

\* The arithmetic mean of a sequence of integers, 0 for the empty sequence.
Mean(seq) == IF seq = <<>> THEN RatOfInt(0) ELSE Rat(Sum(seq), Len(seq))

\* C3: whenever no call of the object is running, averageResponseTime is the
\* mean of exactly assistantMessages samples: the number of response times
\* recorded is assistantMessages and averageResponseTime is their mean.
C3_MeanOfRecordedDeltas ==
  \A o \in Objects :
    NoneRunning(o) =>
      /\ Len(Deltas(getMessages(o))) = getAnalytics(o).assistantMessages
      /\ getAnalytics(o).averageResponseTime = Mean(Deltas(getMessages(o)))


\* A ledger of user and assistant messages in alternation, user first.
Alternating(seq) ==
  /\ Len(seq) > 0
  /\ Len(seq) % 2 = 0
  /\ \A i \in 1..Len(seq) :
       seq[i].role = IF i % 2 = 1 THEN "user" ELSE "assistant"

\* d_1 .. d_k of such a ledger: each assistant timestamp minus the timestamp
\* of the user message before it.
PairDeltas(seq) ==
  [i \in 1..(Len(seq) \div 2) |-> seq[2 * i].timestamp - seq[2 * i - 1].timestamp]

\* C4: after k user/assistant pairs appended in alternation to an empty
\* session, assistantMessages is k and averageResponseTime is
\* (d_1 + ... + d_k) / k; a user message at 1000 and an assistant message at
\* 1500 give 500 with assistantMessages 1, and a second pair of delta 300
\* gives 400.
C4_PairsMean ==
  \A o \in Objects :
    (NoneRunning(o) /\ Alternating(getMessages(o))) =>
      LET m == getMessages(o)
          a == getAnalytics(o)
          k == Len(m) \div 2
      IN  /\ a.assistantMessages = k
          /\ a.averageResponseTime = Rat(Sum(PairDeltas(m)), k)
          /\ (m[1].timestamp = 1000 /\ m[2].timestamp = 1500) =>
                /\ k = 1 => a.averageResponseTime = RatOfInt(500)
                /\ (k = 2 /\ m[4].timestamp - m[3].timestamp = 300) =>
                      a.averageResponseTime = RatOfInt(400)

\* The two pairs of the example are in the ledger and the mean is 400.
C4_Witness ==
  \E o \in Objects :
    /\ Settled(o)
    /\ Alternating(getMessages(o))
    /\ Len(getMessages(o)) = 4
    /\ getMessages(o)[1].timestamp = 1000
    /\ getMessages(o)[2].timestamp = 1500
    /\ getMessages(o)[4].timestamp - getMessages(o)[3].timestamp = 300
    /\ getAnalytics(o).averageResponseTime = RatOfInt(400)
    /\ getAnalytics(o).assistantMessages = 2

\* The call c completes in this step.
Completes(c, pc) == calls[c].pc = pc /\ calls'[c].pc = "done"

\* C5: an assistant append to a ledger that holds no user message leaves
\* averageResponseTime as it was and adds one to assistantMessages and to
\* totalMessages.
C5_NoUserNoSample ==
  [][\A c \in Calls :
       ( /\ Completes(c, "L82")
         /\ calls[c].role = "assistant"
         /\ LastUserIndex(getMessages(obj(c))) = 0 ) =>
       /\ getAnalytics(obj(c))'.averageResponseTime
            = getAnalytics(obj(c)).averageResponseTime
       /\ getAnalytics(obj(c))'.assistantMessages
            = getAnalytics(obj(c)).assistantMessages + 1
       /\ getAnalytics(obj(c))'.totalMessages
            = getAnalytics(obj(c)).totalMessages + 1]_vars

\* An assistant append has completed on a ledger of two messages or more,
\* none of them a user message.
C5_Witness ==
  \E c \in Calls :
    /\ calls[c].pc = "done"
    /\ calls[c].op = "addMessage"
    /\ calls[c].role = "assistant"
    /\ Len(getMessages(obj(c))) >= 2
    /\ LastUserIndex(getMessages(obj(c))) = 0
    /\ getAnalytics(obj(c)).assistantMessages >= 1

\* The index of the first user message of a list, 0 when there is none.
RECURSIVE FirstUserIndex(_)
FirstUserIndex(seq) ==
  IF seq = <<>> THEN 0
  ELSE IF Head(seq).role = "user" THEN 1
  ELSE LET i == FirstUserIndex(Tail(seq)) IN IF i = 0 THEN 0 ELSE i + 1

FirstTime(o) == getAnalytics(o).firstMessageTime

\* C6: in every step, a firstMessageTime that is set stays as it is unless
\* the step is the reset of clearMessages, and a firstMessageTime that
\* becomes set is the timestamp of the first user message of the ledger.
C6_FirstMessageTimeStable ==
  [][\A o \in Objects :
       /\ FirstTime(o) # {} =>
            \/ FirstTime(o)' = FirstTime(o)
            \/ \E c \in Calls : obj(c) = o /\ Completes(c, "L39")
       /\ (FirstTime(o) = {} /\ FirstTime(o)' # {}) =>
            /\ FirstUserIndex(getMessages(o)') # 0
            /\ FirstTime(o)' =
                 {getMessages(o)'[FirstUserIndex(getMessages(o)')].timestamp}]_vars

\* The ledger holds two user messages of different timestamps, the second
\* append has completed, and firstMessageTime is that of the first.
C6_Witness ==
  \E o \in Objects :
    /\ Settled(o)
    /\ CountOf(RolesOf(getMessages(o)), "user") >= 2
    /\ FirstTime(o) # getAnalytics(o).lastMessageTime
    /\ FirstTime(o) = {getMessages(o)[FirstUserIndex(getMessages(o))].timestamp}

\* C7: when clearMessages has completed, getMessages evaluates to the empty
\* list and getAnalytics to the zeroed default, whatever was appended before.
C7_ClearResetsBoth ==
  \A c \in Calls :
    (calls[c].op = "clearMessages" /\ calls[c].pc = "done") =>
      /\ getMessages(obj(c)) = <<>>
      /\ getAnalytics(obj(c)) = ZeroAnalytics

\* clearMessages runs on a session to which two messages or more were
\* appended, one of them a user message: it has emptied the ledger and is
\* about to reset the analytics.
C7_Witness ==
  \E c \in Calls :
    /\ calls[c].op = "clearMessages"
    /\ calls[c].pc = "L39"
    /\ getAnalytics(obj(c)).totalMessages >= 2
    /\ getAnalytics(obj(c)).firstMessageTime # {}

\* C8: while clearMessages is between the write that empties the ledger and
\* the write that resets the analytics, no other call of the object is
\* running.
C8_ClearAtomic ==
  \A c \in Calls :
    (calls[c].op = "clearMessages" /\ calls[c].pc = "L39") =>
      \A d \in Calls : (d # c /\ obj(d) = obj(c)) => ~Running(d)

\* clearMessages is between its two writes, the analytics are not reset yet
\* and another call of the object waits in the inbox.
C8_Witness ==
  \E c, d \in Calls :
    /\ c # d
    /\ calls[c].op = "clearMessages" /\ calls[c].pc = "L39"
    /\ obj(d) = obj(c) /\ calls[d].pc = "queued"
    /\ getAnalytics(obj(c)).totalMessages > 0

\* Every message has the content written through session t.
WrittenThrough(seq, t) == \A i \in 1..Len(seq) : seq[i].content = t

\* C9, in every state: the ledger of a session holds only messages written
\* through that session, a getMessages on it returns only such messages,
\* and once its object has settled its analytics count the appends
\* submitted to it and no other.
SessionsApart ==
  \A t \in Sessions :
    /\ WrittenThrough(getMessages(idFromName(t)), t)
    /\ \A c \in Calls :
         (calls[c].pc = "done" /\ calls[c].op = "getMessages" /\ calls[c].sess = t)
           => WrittenThrough(Value(calls[c].ret), t)
    /\ Settled(idFromName(t)) =>
         getAnalytics(idFromName(t)).totalMessages = Len(expected[t])

\* C9, in every step: a step of a call on session S leaves the messages and
\* the analytics of every other session unchanged.
OtherSessionsUnchanged ==
  \A c \in Calls :
    (Running(c) /\ calls'[c] # calls[c]) =>
      \A t \in Sessions :
        t # calls[c].sess =>
          /\ getMessages(idFromName(t))' = getMessages(idFromName(t))
          /\ getAnalytics(idFromName(t))' = getAnalytics(idFromName(t))

\* C9: two sessions never observe each other's messages or analytics.
C9_SessionIsolation == []SessionsApart /\ [][OtherSessionsUnchanged]_vars

\* Both sessions hold a message and an append to s1 is about to write the
\* analytics of s1.
C9_Witness ==
  \E c \in Calls :
    /\ calls[c].sess = "s1"
    /\ calls[c].pc = "L82"
    /\ getMessages(idFromName("s1")) # <<>>
    /\ getMessages(idFromName("s2")) # <<>>
    /\ getAnalytics(idFromName("s2")).totalMessages = 1

\* C10: a getMessages on an object that stores no list returns the empty
\* list, and a getAnalytics on an object that stores no analytics returns
\* the zeroed default.
C10_FirstAccessDefaults ==
  \A c \in Calls :
    calls[c].pc = "done" =>
      /\ (calls[c].op = "getMessages" /\ messages[obj(c)] = {}) =>
           calls[c].ret = {<<>>}
      /\ (calls[c].op = "getAnalytics" /\ analytics[obj(c)] = {}) =>
           calls[c].ret = {ZeroAnalytics}

\* A getMessages has returned from an object that stores nothing.
C10_Witness ==
  \E c \in Calls :
    /\ calls[c].pc = "done"
    /\ calls[c].op = "getMessages"
    /\ messages[obj(c)] = {}
    /\ analytics[obj(c)] = {}


\* C11: at most one call of an object is between its first storage access
\* and its last: while a call awaits a storage read or write, no other call
\* of that object has begun.
C11_OneCallPerObject ==
  \A c, d \in Calls :
    (c # d /\ Running(c) /\ Running(d)) => obj(c) # obj(d)

\* An addMessage awaits its read of the analytics while a getMessages of the
\* same object, submitted after it, has not begun.
C11_Witness ==
  \E c, d \in Calls :
    /\ c # d
    /\ obj(c) = obj(d)
    /\ calls[c].op = "addMessage" /\ calls[c].pc = "L57"
    /\ calls[d].op = "getMessages" /\ calls[d].pc = "queued"

\* C16: in every step that changes the ledger of an object, either the new
\* ledger is the old one followed by exactly one message, every message
\* stored before being unchanged, or the step is the first write of
\* clearMessages and the new ledger is empty.
C16_AppendOnly ==
  [][\A o \in Objects :
       getMessages(o)' # getMessages(o) =>
         \/ /\ Len(getMessages(o)') = Len(getMessages(o)) + 1
            /\ SubSeq(getMessages(o)', 1, Len(getMessages(o))) = getMessages(o)
            /\ \E c \in Calls : obj(c) = o /\ calls[c].op = "addMessage"
                                /\ calls[c].pc = "L33"
         \/ /\ getMessages(o)' = <<>>
            /\ \E c \in Calls : obj(c) = o /\ calls[c].op = "clearMessages"
                                /\ calls[c].pc = "L38"]_vars

\* A third message, stamped later than the first, has been appended to a
\* ledger of two.
C16_Witness ==
  \E c \in Calls :
    /\ calls[c].op = "addMessage" /\ calls[c].pc = "L57"
    /\ Len(getMessages(obj(c))) = 3
    /\ getMessages(obj(c))[1].timestamp < getMessages(obj(c))[3].timestamp

\* C17: whenever no call of an object is running, totalMessages is the
\* length of its ledger, userMessages the number of user messages in it and
\* assistantMessages the number of assistant messages in it.
C17_LockStep ==
  \A o \in Objects :
    NoneRunning(o) =>
      /\ getAnalytics(o).totalMessages = Len(getMessages(o))
      /\ getAnalytics(o).userMessages = CountOf(RolesOf(getMessages(o)), "user")
      /\ getAnalytics(o).assistantMessages
           = CountOf(RolesOf(getMessages(o)), "assistant")

\* A ledger of a user, an assistant and a system message, all counted.
C17_Witness ==
  \E o \in Objects :
    /\ Settled(o)
    /\ Len(getMessages(o)) = 3
    /\ \A r \in Roles : CountOf(RolesOf(getMessages(o)), r) = 1
    /\ getAnalytics(o).totalMessages = 3

\* The most recent user message of a list that has one.
MostRecentUser(seq) ==
  seq[CHOOSE i \in 1..Len(seq) :
        /\ seq[i].role = "user"
        /\ \A j \in (i + 1)..Len(seq) : seq[j].role # "user"]

HasUser(seq) == \E i \in 1..Len(seq) : seq[i].role = "user"

\* C18: the step that stores the analytics of an assistant append to a
\* ledger with a user message stores
\* (old mean * (assistantMessages - 1) + delta) / assistantMessages, with
\* assistantMessages already incremented and delta the timestamp of the new
\* message minus that of the most recent user message, however many
\* assistant messages lie between them.
C18_DeltaFromLastUser ==
  [][\A c \in Calls :
       ( /\ Completes(c, "L82")
         /\ calls[c].role = "assistant"
         /\ HasUser(getMessages(obj(c))) ) =>
       LET m == getMessages(obj(c))
           old == getAnalytics(obj(c))
           n == old.assistantMessages + 1
           delta == m[Len(m)].timestamp - MostRecentUser(m).timestamp
       IN  /\ getAnalytics(obj(c))'.assistantMessages = n
           /\ getAnalytics(obj(c))'.averageResponseTime =
                Rat(old.averageResponseTime.num * (n - 1)
                      + delta * old.averageResponseTime.den,
                    old.averageResponseTime.den * n)]_vars

\* A second assistant reply to the same user message, stamped later than
\* the first reply, has been folded into the mean; an earlier user message
\* precedes that one.
C18_Witness ==
  \E c \in Calls :
    /\ calls[c].pc = "done" /\ calls[c].op = "addMessage"
    /\ calls[c].role = "assistant"
    /\ LET m == getMessages(obj(c))
       IN  /\ Len(m) >= 3
           /\ m[Len(m) - 2].role = "user"
           /\ m[Len(m) - 1].role = "assistant"
           /\ m[Len(m) - 2].timestamp < m[Len(m) - 1].timestamp
           /\ m[Len(m) - 1].timestamp < m[Len(m)].timestamp
    /\ getAnalytics(obj(c)).assistantMessages = 2

\* lastMessageTime as the ledger gives it.
LastUserTime(seq) == IF HasUser(seq) THEN {MostRecentUser(seq).timestamp} ELSE {}

\* C19, in every state: whenever no call of the object is running,
\* lastMessageTime is the timestamp of the most recent user message of the
\* ledger, and unset when there is none.
LastMessageTimeIsLastUser ==
  \A o \in Objects :
    NoneRunning(o) => getAnalytics(o).lastMessageTime = LastUserTime(getMessages(o))

\* C19, in every step: the step that stores the analytics of an assistant or
\* system append leaves firstMessageTime and lastMessageTime unchanged.
OtherRolesKeepTimes ==
  \A c \in Calls :
    (Completes(c, "L82") /\ calls[c].role \in {"assistant", "system"}) =>
      /\ getAnalytics(obj(c))'.firstMessageTime = getAnalytics(obj(c)).firstMessageTime
      /\ getAnalytics(obj(c))'.lastMessageTime = getAnalytics(obj(c)).lastMessageTime

\* C19: every user append sets lastMessageTime to its timestamp, and no
\* other append changes firstMessageTime or lastMessageTime.
C19_LastMessageTime == []LastMessageTimeIsLastUser /\ [][OtherRolesKeepTimes]_vars

\* Two user messages of different timestamps and then another message: the
\* analytics hold the timestamp of the second user message.
C19_Witness ==
  \E o \in Objects :
    /\ Settled(o)
    /\ Len(getMessages(o)) = 3
    /\ getMessages(o)[1].role = "user" /\ getMessages(o)[2].role = "user"
    /\ getMessages(o)[3].role # "user"
    /\ getMessages(o)[1].timestamp < getMessages(o)[2].timestamp
    /\ getAnalytics(o).lastMessageTime = {getMessages(o)[2].timestamp}

\* C20: a system append stores its message at the end of the ledger, and the
\* step that stores its analytics adds one to totalMessages and changes no
\* other field.
C20_SystemAppend ==
  [][\A c \in Calls :
       (calls[c].op = "addMessage" /\ calls[c].role = "system") =>
         /\ (calls[c].pc = "L33" /\ calls'[c].pc = "L57") =>
              /\ Len(getMessages(obj(c))') = Len(getMessages(obj(c))) + 1
              /\ getMessages(obj(c))'[Len(getMessages(obj(c))')].role = "system"
         /\ Completes(c, "L82") =>
              getAnalytics(obj(c))' =
                [getAnalytics(obj(c)) EXCEPT !.totalMessages = @ + 1]]_vars

\* A system append has completed on a session that already had a user and
\* an assistant message and a mean that is not 0.
C20_Witness ==
  \E c \in Calls :
    /\ calls[c].pc = "done" /\ calls[c].op = "addMessage"
    /\ calls[c].role = "system"
    /\ getAnalytics(obj(c)).userMessages = 1
    /\ getAnalytics(obj(c)).assistantMessages = 1
    /\ getAnalytics(obj(c)).averageResponseTime # RatOfInt(0)
    /\ getAnalytics(obj(c)).totalMessages = 3


\* C15: in every ledger the timestamps are non-decreasing in append order,
\* and none is a timestamp a caller supplied: each is the clock's value at
\* its append.
C15_TimestampsMonotone ==
  \A o \in Objects :
    /\ \A i, j \in 1..Len(getMessages(o)) :
         i < j => getMessages(o)[i].timestamp <= getMessages(o)[j].timestamp
    /\ \A i \in 1..Len(getMessages(o)) :
         getMessages(o)[i].timestamp \notin CallerTimestamps

\* A message sent with a timestamp of its caller's has been stored and
\* another message appended later: the ledger holds two different clock
\* values, in order.
C15_Witness ==
  \E c \in Calls :
    /\ calls[c].op = "addMessage" /\ calls[c].pc = "L57"
    /\ Len(getMessages(obj(c))) = 2
    /\ getMessages(obj(c))[1].timestamp < getMessages(obj(c))[2].timestamp
    /\ \E d \in Calls : calls[d].pc = "queued" /\ calls[d].timestamp \in CallerTimestamps


\* C12: when an addMessage has ended with a storage failure, the ledger and
\* the analytics of its session agree on whether the message was appended:
\* the analytics count as many messages as the ledger holds.
C12_AppendAllOrNothing ==
  \A c \in Calls :
    ( /\ calls[c].pc = "done"
      /\ calls[c].op = "addMessage"
      /\ calls[c].ret = {"StorageFailure"} ) =>
    getAnalytics(obj(c)).totalMessages = Len(getMessages(obj(c)))


\* C13: the step in which the inference call of a chat request throws, and
\* the step in which that request then answers, send no call to the object
\* and change neither the ledger nor the analytics: no assistant message is
\* appended for the request and its user message, stored before the
\* inference call began, is not taken back.  The request answers from the
\* catch with no call of its own outstanding.
C13_InferenceFailure ==
  [][\A c \in Calls :
       ( \/ calls[c].pc \in {"L138", "L171"} /\ calls'[c].chat = "L190"
         \/ calls[c].chat = "L190" /\ calls'[c] # calls[c] ) =>
       /\ messages' = messages
       /\ analytics' = analytics
       /\ inbox' = inbox
       /\ calls'[c].op # "addMessage"
       /\ calls'[c].pc \in {"done", "idle"}]_vars

\* The inference call of a request has thrown: the ledger ends with the
\* user message of the request, counted, and holds no assistant message.
C13_Witness ==
  \E c \in Calls :
    /\ calls[c].pc = "done" /\ calls[c].chat = "L190"
    /\ Len(getMessages(obj(c))) = 1
    /\ getMessages(obj(c))[1].role = "user"
    /\ getAnalytics(obj(c)).userMessages = 1
    /\ getAnalytics(obj(c)).totalMessages = 1
    /\ getAnalytics(obj(c)).assistantMessages = 0

\* C14: no request with an empty sessionId reaches storage: no call made
\* for the empty identifier ever awaits a storage read or write, and nothing
\* is stored in its object.
C14_EmptySessionRejected ==
  /\ \A c \in Calls : calls[c].sess = "" => ~Running(c)
  /\ messages[idFromName("")] = {}
  /\ analytics[idFromName("")] = {}


\* C21: when a clearMessages has ended with a storage failure, the ledger
\* and the analytics of its session have been reset together or not at
\* all: an empty ledger does not stand next to analytics that count
\* messages.
C21_ClearAllOrNothing ==
  \A c \in Calls :
    ( /\ calls[c].pc = "done"
      /\ calls[c].op = "clearMessages"
      /\ calls[c].ret = {"StorageFailure"} ) =>
    (getMessages(obj(c)) = <<>> => getAnalytics(obj(c)).totalMessages = 0)

\* C22: the stored averageResponseTime of every object is at least 0 in
\* every state.
C22_MeanNotNegative ==
  \A o \in Objects :
    /\ getAnalytics(o).averageResponseTime.den > 0
    /\ getAnalytics(o).averageResponseTime.num >= 0

\* An assistant reply stamped later than its user message has been stored
\* with its analytics after a clear of an earlier conversation: the mean is
\* above 0.
C22_Witness ==
  \E o \in Objects :
    /\ Settled(o)
    /\ messages[o] # {}
    /\ Len(getMessages(o)) = 2
    /\ getMessages(o)[1].role = "user" /\ getMessages(o)[2].role = "assistant"
    /\ getMessages(o)[1].timestamp > 1
    /\ getAnalytics(o).assistantMessages = 1
    /\ getAnalytics(o).averageResponseTime.num > 0

\* C25: whenever no call of an object is running, firstMessageTime and
\* lastMessageTime are both unset or both set, they are set exactly when
\* userMessages is above 0, and firstMessageTime is at most lastMessageTime.
C25_TimesTogether ==
  \A o \in Objects :
    NoneRunning(o) =>
      LET a == getAnalytics(o)
      IN  /\ (a.firstMessageTime = {}) <=> (a.lastMessageTime = {})
          /\ (a.firstMessageTime # {}) <=> (a.userMessages > 0)
          /\ a.firstMessageTime # {} =>
               Value(a.firstMessageTime) <= Value(a.lastMessageTime)

\* After a clear, two user messages of different timestamps have been
\* counted: firstMessageTime is below lastMessageTime.
C25_Witness ==
  \E o \in Objects :
    /\ Settled(o)
    /\ getAnalytics(o).userMessages = 2
    /\ getAnalytics(o).firstMessageTime # {}
    /\ getAnalytics(o).lastMessageTime # {}
    /\ Value(getAnalytics(o).firstMessageTime) > 1
    /\ Value(getAnalytics(o).firstMessageTime)
         < Value(getAnalytics(o).lastMessageTime)


\* C23: when the user message of a chat request has just been stored, every
\* message that stands before it in the ledger is in the context the
\* request hands to the text model, at the same place after the system
\* prompt: nothing appended before the user message is missing.
C23_ContextIsLedgerBefore ==
  \A c \in Calls :
    (calls[c].chat = "L125" /\ calls[c].pc = "L57") =>
      LET before == SubSeq(getMessages(obj(c)), 1, Len(getMessages(obj(c))) - 1)
      IN  /\ Len(before) + 2 <= Len(aiMessages(c))
          /\ \A i \in 1..Len(before) : aiMessages(c)[i + 1] = before[i]

\* C24: in a session written to by chat and clear requests only, every
\* assistant message of the ledger has a user message before it.
C24_AssistantAfterUser ==
  \A o \in Objects :
    \A i \in 1..Len(getMessages(o)) :
      getMessages(o)[i].role = "assistant" =>
        \E j \in 1..(i - 1) : getMessages(o)[j].role = "user"

====
